---- MODULE Spec2Model ----
(***************************************************************************)
(* Model of components/chat/user_input.py: the handling of one user        *)
(* message of the OmniGuard chat page.                                     *)
(*                                                                         *)
(* A Python str is a sequence of one-character strings where its           *)
(* characters matter (the user's input) and a sequence of tokens where it  *)
(* is a literal of the program; an f-string is the concatenation of its    *)
(* parts.  A dict is a record; a key the dict does not have is a field the *)
(* record does not have.                                                   *)
(***************************************************************************)
EXTENDS Integers, Sequences, FiniteSets, TLC

VARIABLES
    session_state,       \* st.session_state: the keys user_input.py reads or writes
    arg,                 \* the argument process_user_message was last called with
    user_input,          \* the local user_input of process_user_message (after strip)
    pc,                  \* the position of the running call of process_user_message
    omniguard_response,  \* the local omniguard_response of handle_omniguard_check
    handed,              \* the arguments of the call of process_omniguard_result
    calls,               \* the collaborator calls of the last call, in order
    shown,               \* what streamlit displayed during the last call, in order
    raised               \* the texts of the exceptions raised during the last call

vars == <<session_state, arg, user_input, pc, omniguard_response, handed,
          calls, shown, raised>>

----------------------------------------------------------------------------
(* Bounds *)

\* the longest user input, in characters
MaxLen == 2
\* the number of user messages accepted in one session
MaxTurns == 2

----------------------------------------------------------------------------
(* Values *)

Char == {"a", " "}
Whitespace == {" "}

RECURSIVE StrOfLen(_)
StrOfLen(n) ==
    IF n = 0 THEN {<<>>}
    ELSE {<<c>> \o s : c \in Char, s \in StrOfLen(n - 1)}

Strings == UNION {StrOfLen(n) : n \in 0..MaxLen}

\* A Python value passed as user_input: a str, None, an int or a list.
PyStr(s) == [type |-> "str", text |-> s, num |-> 0]
PyNone == [type |-> "NoneType", text |-> <<>>, num |-> 0]
PyInt(n) == [type |-> "int", text |-> <<>>, num |-> n]
PyList(s) == [type |-> "list", text |-> s, num |-> 0]

Inputs ==
    {PyStr(s) : s \in Strings} \cup {PyNone, PyInt(0), PyInt(7), PyList(<<"a">>)}

\* bool(v), as Python's `not v` uses it
Truthy(v) ==
    CASE v.type = "str" -> v.text # <<>>
      [] v.type = "NoneType" -> FALSE
      [] v.type = "int" -> v.num # 0
      [] v.type = "list" -> v.text # <<>>

\* isinstance(v, str)
IsStr(v) == v.type = "str"

RECURSIVE lstrip(_)
lstrip(s) ==
    IF s # <<>> /\ Head(s) \in Whitespace THEN lstrip(Tail(s)) ELSE s

RECURSIVE rstrip(_)
rstrip(s) ==
    IF s # <<>> /\ s[Len(s)] \in Whitespace
    THEN rstrip(SubSeq(s, 1, Len(s) - 1))
    ELSE s

\* str.strip()
strip(s) == rstrip(lstrip(s))

----------------------------------------------------------------------------
(* Texts *)

\* the fixed texts of user_input.py
UnavailableText == <<"Safety system unavailable - please try again">>
RawErrorText == <<"Error: Could not fetch raw response">>
RawErrorPrefix == <<"Error fetching raw response: ">>
CheckErrorPrefix == <<"Error calling OmniGuard: ">>

\* the texts of the exceptions a collaborator may raise: str(ex)
ExcTexts == {<<"upstream timeout">>, <<"KeyError: 'choices'">>}

\* what the assistant model answers, and what OmniGuard writes in a rejection
AssistantReplies == {<<"assistant reply">>}
RejectionTexts == {<<"I can't help with that.">>}

\* `sub in text` for Python strings
Contains(text, sub) ==
    \E i \in 0..(Len(text) - Len(sub)) : SubSeq(text, i + 1, i + Len(sub)) = sub

----------------------------------------------------------------------------
(* Collaborators: the callbacks and the functions imported from omniguard *)

\* generate_conversation_id(turn_number): one id per turn number
generate_conversation_id(n) == [base |-> "conversation", turn |-> n]

Actions == {"allow", "UserInputRejection", "AssistantOutputRejection"}

\* what omniguard_check() may return for the conversation `cid`: well-formed
\* decisions, and the malformed payloads of a dynamically typed service
WellFormed(cid) ==
    {[conversationId |-> cid, response |-> [action |-> "allow"]]}
    \cup {[conversationId |-> cid,
           response |-> [action |-> "UserInputRejection", UserInputRejection |-> t]]
          : t \in RejectionTexts}
    \cup {[conversationId |-> cid,
           response |-> [action |-> "AssistantOutputRejection",
                         AssistantOutputRejection |-> t]]
          : t \in RejectionTexts}

Malformed(cid) ==
    { [conversationId |-> cid, response |-> [analysis |-> "none"]],
      [conversationId |-> cid, response |-> [action |-> "escalate"]] }

\* the outcomes of one call of omniguard_check(): a payload or an exception
OmniguardOutcomes(cid) ==
    {[raises |-> FALSE, payload |-> p, ex |-> <<>>] : p \in WellFormed(cid) \cup Malformed(cid)}
    \cup {[raises |-> TRUE, payload |-> [response |-> [analysis |-> "none"]], ex |-> e]
          : e \in ExcTexts}

\* the outcomes of one call of fetch_assistant_response(): a text or an exception
FetchOutcomes ==
    {[raises |-> FALSE, text |-> t, ex |-> <<>>] : t \in AssistantReplies}
    \cup {[raises |-> TRUE, text |-> <<>>, ex |-> e] : e \in ExcTexts}

\* response.action of a payload, "none" when the payload has none
ActionOf(p) ==
    IF "response" \in DOMAIN p /\ "action" \in DOMAIN p.response
    THEN p.response.action
    ELSE "none"

\* one entry of the log of collaborator calls
Call(fn, caller, skip, outcome, decision) ==
    [fn |-> fn, caller |-> caller, skip_omniguard |-> skip, outcome |-> outcome,
     decision |-> decision]

Display(kind, text) == [kind |-> kind, text |-> text]

----------------------------------------------------------------------------
(* components/chat/user_input.py *)

\* the session state before the first message
Init ==
    /\ session_state \in
         {[turn_number |-> 0,
           conversation_id |-> generate_conversation_id(0),
           messages |-> <<>>,
           show_unfiltered_response |-> b,
           raw_assistant_response |-> <<>>] : b \in BOOLEAN}
    /\ arg = PyNone
    /\ user_input = <<>>
    /\ pc = "idle"
    /\ omniguard_response = [response |-> [analysis |-> "none"]]
    /\ handed = [omniguard_response |-> [response |-> [analysis |-> "none"]],
                 user_input |-> <<>>, context |-> <<>>]
    /\ calls = <<>>
    /\ shown = <<>>
    /\ raised = {}

\* line 21 without its isinstance test
SkipsFalsy(u) == ~Truthy(u)

\* line 21: `not user_input or not isinstance(user_input, str)`
Skips(u) == ~Truthy(u) \/ ~IsStr(u)

\* lines 25-27 with the id made before the turn number is raised
AppendUserTurnStaleId(ss, content) ==
    [ss EXCEPT !.turn_number = @ + 1,
               !.conversation_id = generate_conversation_id(ss.turn_number),
               !.messages = Append(@, [role |-> "user", content |-> content])]

\* lines 25-27: the new turn number, the id made from it, the user turn appended
AppendUserTurn(ss, content) ==
    [ss EXCEPT !.turn_number = @ + 1,
               !.conversation_id = generate_conversation_id(ss.turn_number + 1),
               !.messages = Append(@, [role |-> "user", content |-> content])]

\* lines 21-31 of process_user_message, up to the two handlers it then calls
process_user_message(u) ==
    /\ pc = "idle"
    /\ arg' = u
    /\ raised' = {}
    /\ UNCHANGED <<omniguard_response, handed>>
    /\ IF Skips(u)
       THEN /\ calls' = <<>>
            /\ shown' = <<>>
            /\ UNCHANGED <<session_state, user_input, pc>>
       ELSE /\ session_state.turn_number < MaxTurns
            /\ user_input' = strip(u.text)
            /\ session_state' = AppendUserTurn(session_state, strip(u.text))
            /\ calls' = << Call("generate_conversation_id", "process_user_message",
                                FALSE, "return", "none"),
                           Call("update_conversation_context", "process_user_message",
                                FALSE, "return", "none") >>
            /\ shown' = << Display("user", strip(u.text)) >>
            /\ pc' = "raw"

\* line 44 without its test of the setting
RawAlways(ss) == TRUE

\* line 44: whether the raw response is fetched
RawEnabled(ss) == ss.show_unfiltered_response

\* lines 47 and 54: the one key handle_raw_response writes
raw_write(ss, value) == [ss EXCEPT !.raw_assistant_response = value]

\* lines 36-54
handle_raw_response ==
    /\ pc = "raw"
    /\ pc' = "check"
    /\ UNCHANGED <<arg, user_input, omniguard_response, handed>>
    /\ IF RawEnabled(session_state)
       THEN \E o \in FetchOutcomes :
              /\ calls' = Append(calls,
                    Call("fetch_assistant_response", "handle_raw_response", TRUE,
                         IF o.raises THEN "raise" ELSE "return", "none"))
              /\ IF o.raises
                 THEN /\ shown' = Append(shown, Display("error", RawErrorPrefix \o o.ex))
                      /\ raised' = raised \cup {o.ex}
                      /\ session_state' = raw_write(session_state, RawErrorText)
                 ELSE /\ session_state' = raw_write(session_state, o.text)
                      /\ UNCHANGED <<shown, raised>>
       ELSE UNCHANGED <<session_state, calls, shown, raised>>

\* lines 70-75 failing open
FallbackAllows == [response |-> [action |-> "allow"]]

\* lines 70-75: the decision that stands in for a failed check
Fallback ==
    [response |-> [action |-> "UserInputRejection",
                   UserInputRejection |-> UnavailableText]]

\* line 79 skipped by a return in the except clause
after_try_return(raises) == IF raises THEN "idle" ELSE "call"

\* line 79 follows the try statement: it is reached whether or not it raised
after_try(raises) == "call"

\* lines 64-75 of handle_omniguard_check: the one attempt and its except clause
omniguard_try ==
    /\ pc = "check"
    /\ \E o \in OmniguardOutcomes(session_state.conversation_id) :
         /\ calls' = Append(calls,
               Call("omniguard_check", "handle_omniguard_check", FALSE,
                    IF o.raises THEN "raise" ELSE "return",
                    IF o.raises THEN "none" ELSE ActionOf(o.payload)))
         /\ IF o.raises
            THEN /\ shown' = Append(shown, Display("error", CheckErrorPrefix \o o.ex))
                 /\ raised' = raised \cup {o.ex}
                 /\ omniguard_response' = Fallback
            ELSE /\ omniguard_response' = o.payload
                 /\ UNCHANGED <<shown, raised>>
         /\ pc' = after_try(o.raises)
    /\ UNCHANGED <<session_state, arg, user_input, handed>>

\* lines 77-78 reading the first message instead of the last
context_first(messages) ==
    IF messages = <<>> THEN <<>>
    ELSE <<messages[1].role, ": ">> \o messages[1].content

\* lines 77-78: f"{last_msg['role']}: {last_msg['content']}", "" without messages
context(messages) ==
    IF messages = <<>> THEN <<>>
    ELSE <<messages[Len(messages)].role, ": ">> \o messages[Len(messages)].content

\* lines 77-79 of handle_omniguard_check: the call of process_omniguard_result
handle_omniguard_check ==
    /\ pc = "call"
    /\ handed' = [omniguard_response |-> omniguard_response,
                  user_input |-> user_input,
                  context |-> context(session_state.messages)]
    /\ calls' = Append(calls,
          Call("process_omniguard_result", "handle_omniguard_check", FALSE,
               "return", ActionOf(omniguard_response)))
    /\ pc' = "result"
    /\ UNCHANGED <<session_state, arg, user_input, omniguard_response, shown, raised>>

----------------------------------------------------------------------------
(* omniguard.process_omniguard_result: validator and resolver *)

\* the validator: the schema, the enum and the conversation id
validate(p, cid) ==
    /\ "conversationId" \in DOMAIN p
    /\ p.conversationId = cid
    /\ "response" \in DOMAIN p
    /\ "action" \in DOMAIN p.response
    /\ p.response.action \in Actions
    /\ \A a \in Actions \ {"allow"} :
         a \in DOMAIN p.response <=> p.response.action = a

\* the visible reply of a turn
reply(ss, text) ==
    [ss EXCEPT !.messages = Append(@, [role |-> "assistant", content |-> text])]

\* the resolver: an allowed user turn goes to the assistant, whose answer is
\* checked in turn; anything else answers with the rejection text
process_omniguard_result ==
    /\ pc = "result"
    /\ pc' = "idle"
    /\ UNCHANGED <<arg, user_input, omniguard_response, handed, raised>>
    /\ LET p == handed.omniguard_response
           cid == session_state.conversation_id
       IN IF ~validate(p, cid)
          THEN /\ session_state' = reply(session_state, UnavailableText)
               /\ shown' = Append(shown, Display("assistant", UnavailableText))
               /\ UNCHANGED calls
          ELSE IF p.response.action = "allow"
          THEN \E o \in FetchOutcomes, verdict \in {"allow", "AssistantOutputRejection"},
                  t \in RejectionTexts :
                 LET text == IF o.raises THEN UnavailableText
                             ELSE IF verdict = "allow" THEN o.text ELSE t
                 IN /\ calls' = calls \o
                       << Call("fetch_assistant_response", "process_omniguard_result",
                               FALSE, IF o.raises THEN "raise" ELSE "return", "none"),
                          Call("omniguard_check", "process_omniguard_result",
                               FALSE, "return", verdict) >>
                    /\ session_state' = reply(session_state, text)
                    /\ shown' = Append(shown, Display("assistant", text))
          ELSE /\ session_state' = reply(session_state, p.response[p.response.action])
               /\ shown' = Append(shown,
                     Display("assistant", p.response[p.response.action]))
               /\ UNCHANGED calls

----------------------------------------------------------------------------

Next ==
    \/ \E u \in Inputs : process_user_message(u)
    \/ handle_raw_response
    \/ omniguard_try
    \/ handle_omniguard_check
    \/ process_omniguard_result

Spec == Init /\ [][Next]_vars

----------------------------------------------------------------------------
(* Properties *)

\* the entries of the log that are calls of fn made by caller
CallsOf(fn, caller) ==
    {i \in DOMAIN calls : calls[i].fn = fn /\ calls[i].caller = caller}

\* the last call of process_user_message passed line 21
Accepted == arg.type = "str" /\ arg.text # <<>>

\* the check of the user turn raised
CheckRaised ==
    \E i \in CallsOf("omniguard_check", "handle_omniguard_check") :
        calls[i].outcome = "raise"

\* the decision of the current cycle has been handed to process_omniguard_result
Handed == Accepted /\ CallsOf("process_omniguard_result", "handle_omniguard_check") # {}

UserTurns(messages) ==
    Cardinality({i \in DOMAIN messages : messages[i].role = "user"})

\* C1: when omniguard_check raises, the decision handed to
\* process_omniguard_result is UserInputRejection with the non-empty generic
\* text, never allow.
C1_FailClosedOnException ==
    (Handed /\ CheckRaised) =>
        /\ ActionOf(handed.omniguard_response) = "UserInputRejection"
        /\ handed.omniguard_response.response.UserInputRejection
             = <<"Safety system unavailable - please try again">>
        /\ handed.omniguard_response.response.UserInputRejection # <<>>
        /\ ActionOf(handed.omniguard_response) # "allow"

C1_Witness == pc = "result" /\ Handed /\ CheckRaised

\* a call of fetch_assistant_response that follows an allow decision on the turn
AfterAllow(i) ==
    \E j \in CallsOf("omniguard_check", "handle_omniguard_check") :
        j < i /\ calls[j].outcome = "return" /\ calls[j].decision = "allow"

C3_MalformedFailClosed ==
    (Handed /\ \E i \in CallsOf("omniguard_check", "handle_omniguard_check") :
                   calls[i].outcome = "return" /\ calls[i].decision \notin Actions)
    => /\ ActionOf(handed.omniguard_response) = "UserInputRejection"
       /\ handed.omniguard_response.response.UserInputRejection
            = <<"Safety system unavailable - please try again">>

\* C4: on the failure paths nothing shown to the user or stored as a visible
\* reply contains the text of the raised exception.
C4_NoInternalErrorText ==
    \A e \in raised :
        /\ \A i \in DOMAIN shown : ~Contains(shown[i].text, e)
        /\ ~Contains(session_state.raw_assistant_response, e)
        /\ \A i \in DOMAIN session_state.messages :
               ~Contains(session_state.messages[i].content, e)

\* C5: a call with an empty ("" or None) or non-string user_input leaves
\* session_state unchanged and calls no collaborator.
C5_RejectedInputNoOp ==
    [][(pc = "idle" /\ (arg'.type # "str" \/ arg'.text = <<>>)) =>
          /\ session_state' = session_state
          /\ calls' = <<>>
          /\ pc' = "idle"]_vars

C5_Witness ==
    /\ pc = "idle"
    /\ arg.type = "int" /\ arg.num # 0
    /\ session_state.turn_number > 0
    /\ calls = <<>>

\* C6: every user turn stored in messages has non-empty content, also after
\* inputs made only of whitespace.
C6_NoEmptyTurn ==
    \A i \in DOMAIN session_state.messages :
        session_state.messages[i].role = "user" =>
            session_state.messages[i].content # <<>>

C8_ConversationIdCarried ==
    Handed =>
        /\ "conversationId" \in DOMAIN handed.omniguard_response
        /\ handed.omniguard_response.conversationId = session_state.conversation_id

\* C9: for an accepted message omniguard_check is attempted at most twice and
\* process_omniguard_result is called exactly once, after the last attempt,
\* whether or not a collaborator raised.
C9_OneDecisionCycle ==
    LET attempts == CallsOf("omniguard_check", "handle_omniguard_check")
        results == CallsOf("process_omniguard_result", "handle_omniguard_check")
    IN /\ Cardinality(attempts) <= 2
       /\ Cardinality(results) <= 1
       /\ \A r \in results : attempts # {} /\ \A a \in attempts : a < r
       /\ (pc = "idle" /\ Accepted) => Cardinality(results) = 1

C9_Witness ==
    /\ pc = "idle"
    /\ Accepted
    /\ CheckRaised
    /\ \E i \in CallsOf("fetch_assistant_response", "handle_raw_response") :
           calls[i].outcome = "raise"
    /\ Cardinality(CallsOf("process_omniguard_result", "handle_omniguard_check")) = 1

\* C10: between the append of the user turn and the call of
\* process_omniguard_result the handlers leave messages, turn_number and
\* conversation_id unchanged, write raw_assistant_response only in
\* handle_raw_response with show_unfiltered_response set, and the context
\* handed over is "user: " followed by the stripped input.
C10_DecisionRequestKeepsConversation ==
    [][(pc \in {"raw", "check", "call"}) =>
          ( /\ session_state' =
                 [session_state EXCEPT !.raw_assistant_response =
                                           session_state'.raw_assistant_response]
            /\ (session_state' # session_state =>
                   (pc = "raw" /\ session_state.show_unfiltered_response))
            /\ (pc' = "result" =>
                   (handed'.context = <<"user", ": ">> \o strip(arg.text)
                      /\ handed'.user_input = strip(arg.text))) )]_vars

C10_Witness ==
    /\ pc = "result"
    /\ session_state.show_unfiltered_response
    /\ session_state.turn_number = 2
    /\ session_state.raw_assistant_response # <<>>
    /\ arg.text # strip(arg.text)
    /\ handed.context = <<"user", ": ">> \o strip(arg.text)

====
